---- MODULE Spec2Model ----
(***************************************************************************)
(* The tick-based cluster simulator (src/src/cluster.py) and the scaling   *)
(* controllers it drives (src/src/controllers/*.py).                       *)
(*                                                                         *)
(* Numbers.  Python floats are modelled by exact rationals:                *)
(*   - a utilization served/cores is the pair [n, d];                      *)
(*   - a forecast entry and the PredictiveML coefficients are held in      *)
(*     halves (fc2 = 2 * fc), which floats represent exactly;              *)
(*   - Hybrid's intermediate values are held in tenths, with a flag        *)
(*     saying that the float product cores * 1.1 came out one ulp above    *)
(*     the exact value, because math.ceil then gives one more;             *)
(*   - a Summary field is the pair [num, den] of the division that         *)
(*     computes it.                                                        *)
(* An exception a call raises is the outcome raised = TRUE of that call,   *)
(* and pc = "raised" once it has left Cluster.run.                         *)
(***************************************************************************)
EXTENDS Integers, Sequences, FiniteSets, TLC

VARIABLES
    trace,          \* Cluster.trace: arrivals per tick
    ctrl,           \* Cluster.ctrl: the controller object, its fields
    active_cores,   \* Cluster.active_cores
    latencies,      \* Cluster.latencies
    wasted_cpu_s,   \* Cluster.wasted_cpu_s
    sla_viol,       \* Cluster.sla_viol
    queue,          \* Cluster.queue: arrival time of each waiting request
    idx,            \* Cluster.run: the loop variable t, the next step's idx
    pc,             \* Cluster.run: "run", "done" (returned) or "raised"
    summary,        \* the value run returned: {} before, {Summary} after
    ticks,          \* history: one record per step call, in call order
    completed,      \* history: per recorded latency, [arrive, done]
    rows            \* main: rows, with each finished run's tick history

vars == <<trace, ctrl, active_cores, latencies, wasted_cpu_s, sla_viol,
          queue, idx, pc, summary, ticks, completed, rows>>

----------------------------------------------------------------------------
(* Bounds of the model.                                                    *)

MaxTicks == 3
MaxLoad == 2
MaxInitCores == 3
MaxDelay == 2
MaxFc2 == 3
MaxSlope2 == 1
MaxAnyRet == 2
SpikeLoad == 10
LargeCores == 10

\* runs of the batch per controller
MaxRuns == 2

\* the idle scenario: its tick count and its initial cores
IdleTicks == 100

IdleCores == 10

\* direct update calls: the arguments' ranges
MaxCallCores == 101

MaxCallQ == 1

MaxCallFc2 == 100

\* calls of PredictiveARIMA.update in a row
MaxArimaCalls == 1900

----------------------------------------------------------------------------
(* Program constants.                                                      *)

FIXED_SERVICE_MS == 8
MS_PER_TICK == 1000
SLA_THRESHOLD_MS == 200
SECONDS_PER_HOUR == 3600
PERCENT == 100
STEP == 60
WIN == 1800
MIN_FIT == 300

\* Reactive's default delay
DEFAULT_DELAY == 30

high == [n |-> 4, d |-> 5]
low == [n |-> 2, d |-> 5]

----------------------------------------------------------------------------
(* Arithmetic helpers.                                                     *)

Min(a, b) == IF a <= b THEN a ELSE b

Max(a, b) == IF a >= b THEN a ELSE b

\* int(n / d) for d > 0: truncation toward zero
Trunc(n, d) == IF n >= 0 THEN n \div d ELSE -((-n) \div d)

\* math.ceil(n / d) for d > 0
Ceil(n, d) == -((-n) \div d)

\* the sum of s[lo .. hi], by halves
RECURSIVE SumRange(_, _, _)
SumRange(s, lo, hi) ==
    IF lo > hi THEN 0
    ELSE IF lo = hi THEN s[lo]
    ELSE SumRange(s, lo, (lo + hi) \div 2)
           + SumRange(s, (lo + hi) \div 2 + 1, hi)

Sum(s) == SumRange(s, 1, Len(s))

RECURSIVE Pow2Floor(_)
\* the largest power of two <= k, for k >= 1
Pow2Floor(k) == IF k < 2 THEN 1 ELSE 2 * Pow2Floor(k \div 2)

\* u > p and u < p for rationals [n, d] with p.d > 0
Gt(u, p) == IF u.d > 0 THEN u.n * p.d > p.n * u.d ELSE u.n * p.d < p.n * u.d

Lt(u, p) == IF u.d > 0 THEN u.n * p.d < p.n * u.d ELSE u.n * p.d > p.n * u.d

\* served / cores if cores else 0
Utilization(served, cores) ==
    IF cores # 0 THEN [n |-> served, d |-> cores] ELSE [n |-> 0, d |-> 1]

\* n / d: a float, or ZeroDivisionError
Div(n, d) ==
    IF d = 0 THEN [err |-> TRUE, num |-> 0, den |-> 0]
    ELSE [err |-> FALSE, num |-> n, den |-> d]

\* what an update call gives back: a core count, or an exception
Return(c, r) == [raised |-> FALSE, ret |-> r, ctrl |-> c]

Raise(c) == [raised |-> TRUE, ret |-> 0, ctrl |-> c]

----------------------------------------------------------------------------
(* Reactive (controllers/reactive.py).                                     *)

Reactive(delay) ==
    [kind |-> "reactive",
     history |-> [i \in 1..delay |-> [n |-> 0, d |-> 1]]]

\* (variant) the scale-down without its floor
ScaleDownNoFloor(cores) == Trunc(cores * 9, 10)

\* (variant) the scale-down rounded up instead of truncated
ScaleDownCeil(cores) == Max(1, Ceil(cores * 9, 10))

\* cores = max(1, int(cores * (1 - self.step)))
ScaleDown(cores) == Max(1, Trunc(cores * 9, 10))

\* cores = int(cores * (1 + self.step))
ScaleUp(cores) == Trunc(cores * 11, 10)

\* (variant) the decision taken on the utilization of the call itself
CurrentUtil(history, util) == util

\* past_util = self.history.popleft()
PastUtil(history, util) == Head(history)

Reactive_update(c, t, cores, served, queue_len) ==
    LET util == Utilization(served, cores) IN
    IF Len(c.history) = 0
    THEN Raise(c)                 \* popleft of an empty deque: IndexError
    ELSE LET past_util == PastUtil(c.history, util)
             h == Append(Tail(c.history), util)
             r == IF Gt(past_util, high) THEN ScaleUp(cores)
                  ELSE IF Lt(past_util, low) THEN ScaleDown(cores)
                  ELSE cores
         IN  Return([c EXCEPT !.history = h], r)

----------------------------------------------------------------------------
(* PredictiveHourly (controllers/predictive_hourly.py).                    *)

PredictiveHourly(hourly_forecast) ==
    [kind |-> "predictive_hourly", fc |-> hourly_forecast]

\* (variant) the forecast alone, without the backlog term
PredictiveHourly_update_fc(c, t, cores, served, q) ==
    Return(c, Max(1, Ceil(c.fc[t \div SECONDS_PER_HOUR + 1], 2)))

PredictiveHourly_update(c, t, cores, served, q) ==
    LET hour == t \div SECONDS_PER_HOUR IN
    IF hour + 1 > Len(c.fc)
    THEN Raise(c)                 \* fc[hour]: IndexError
    ELSE Return(c, Max(1, Ceil(c.fc[hour + 1] + 2 * q, 2)))

----------------------------------------------------------------------------
(* PredictiveML (controllers/predictive_ml.py).                            *)

PredictiveML(a, b) == [kind |-> "predictive_ml", a |-> a, b |-> b]

PredictiveML_update(c, t, cores, served, q) ==
    LET pred == Max(2, c.a * (t + 1) + c.b)      \* max(1.0, ...) in halves
    IN  Return(c, Max(1, Ceil(pred + 2 * q, 2)))

----------------------------------------------------------------------------
(* PredictiveARIMA (controllers/predictive_arima.py).                      *)

PredictiveARIMA ==
    [kind |-> "predictive_arima", buf |-> <<>>, next_t |-> 0,
     pred |-> [n |-> 1, d |-> 1], prev_q |-> 0]

\* (variant) the buffer without its capacity
BufAppendAll(buf, x) == Append(buf, x)

\* deque(maxlen=WIN).append
BufAppend(buf, x) ==
    IF Len(buf) >= WIN THEN Append(Tail(buf), x) ELSE Append(buf, x)

\* what the refit may leave in pred: the fitted model's one-step forecast
\* (any value the library returns) or, when the fit raises, arr.mean()
Forecasts(buf) ==
    {[n |-> Sum(buf), d |-> Len(buf)]} \cup {[n |-> k, d |-> 1] : k \in 0..MaxLoad}

\* (variant) the load sample with the backlog change taken signed
LoadSampleSigned(served, q, prev_q) == served + (q - prev_q)

\* load = served + max(0, q - self.prev_q)
LoadSample(served, q, prev_q) == served + Max(0, q - prev_q)

PredictiveARIMA_update(c, t, cores, served, q) ==
    LET load == LoadSample(served, q, c.prev_q)
        buf == BufAppend(c.buf, load)
        c1 == [c EXCEPT !.buf = buf, !.prev_q = q]
        refit == t >= c.next_t /\ Len(buf) >= MIN_FIT
        preds == IF refit THEN Forecasts(buf) ELSE {c.pred}
    IN  {Return(IF refit THEN [c1 EXCEPT !.pred = p, !.next_t = t + STEP]
                ELSE c1,
                Max(1, Ceil(p.n + q * p.d, p.d))) : p \in preds}

----------------------------------------------------------------------------
(* Hybrid (controllers/hybrid.py).                                         *)

Hybrid(hourly_fc) == [kind |-> "hybrid", fc |-> hourly_fc]

\* Whether the float product x * 1.1, for an integer x whose exact product
\* k = 11x/10 is an integer, comes out above k: 1.1 is stored 0.4 * 2^-52
\* too large, and the excess survives rounding when k lies in the upper part
\* of its binade.
RoundsUp(k) == k > 0 /\ 8 * k > 11 * Pow2Floor(k)

\* (variant) the blend as the mean of the two candidates, without buffer
Hybrid_update_mean(c, t, cores, served, q) ==
    LET util == Utilization(served, cores)
        reactive == IF Gt(util, high) THEN 11 * cores
                    ELSE IF Lt(util, low) THEN 9 * cores
                    ELSE 10 * cores
    IN  Return(c, Max(1, Ceil(5 * c.fc[t \div SECONDS_PER_HOUR + 1] + 10 * q
                                + reactive, 20)))

Hybrid_update(c, t, cores, served, q) ==
    LET hour == t \div SECONDS_PER_HOUR IN
    IF hour + 1 > Len(c.fc)
    THEN Raise(c)                 \* fc[hour]: IndexError
    ELSE
    LET pred_core == 5 * c.fc[hour + 1] + 10 * q            \* tenths
        util == Utilization(served, cores)
        reactive ==                                          \* tenths
            IF Gt(util, high)
            THEN [v |-> 11 * cores,
                  up |-> cores % 10 = 0 /\ RoundsUp((11 * cores) \div 10)]
            ELSE IF Lt(util, low)
                 THEN [v |-> 9 * cores, up |-> FALSE]
                 ELSE [v |-> 10 * cores, up |-> FALSE]
        blended ==
            IF reactive.v > pred_core \/ (reactive.v = pred_core /\ reactive.up)
            THEN reactive
            ELSE [v |-> pred_core, up |-> FALSE]
        \* math.ceil(blended * (1 + buffer)), buffer = 0.1
        exact == 11 * blended.v                              \* hundredths
        ceiled ==
            IF exact % 100 # 0 THEN Ceil(exact, 100)
            ELSE IF blended.up \/ RoundsUp(exact \div 100)
                 THEN exact \div 100 + 1
                 ELSE exact \div 100
    IN  Return(c, Max(1, ceiled))

----------------------------------------------------------------------------
(* Any other object with an update method: Cluster takes whatever it is    *)
(* given and calls update on it.                                           *)

AnyController == [kind |-> "any"]

AnyReturns == -1..MaxAnyRet

AnyController_update(c, t, cores, served, q) ==
    {Return(c, r) : r \in AnyReturns}

----------------------------------------------------------------------------
(* self.ctrl.update(now, active_cores, served, len(queue)): the outcomes.   *)

update(c, t, cores, served, q) ==
    CASE c.kind = "reactive" -> {Reactive_update(c, t, cores, served, q)}
      [] c.kind = "predictive_hourly" ->
            {PredictiveHourly_update(c, t, cores, served, q)}
      [] c.kind = "predictive_arima" ->
            PredictiveARIMA_update(c, t, cores, served, q)
      [] c.kind = "predictive_ml" ->
            {PredictiveML_update(c, t, cores, served, q)}
      [] c.kind = "hybrid" -> {Hybrid_update(c, t, cores, served, q)}
      [] OTHER -> AnyController_update(c, t, cores, served, q)

----------------------------------------------------------------------------
(* Cluster (cluster.py).                                                   *)

\* (variant) one queue entry per tick with arrivals
enqueue_once(q, load, now) == IF load > 0 THEN Append(q, now) ELSE q

\* for _ in range(load): self.queue.append(now)
enqueue(q, load, now) == q \o [i \in 1..load |-> now]

\* (variant) the newest entry is taken instead of the oldest
pop(q) == [item |-> q[Len(q)], rest |-> SubSeq(q, 1, Len(q) - 1)]

\* self.queue.popleft()
popleft(q) == [item |-> Head(q), rest |-> Tail(q)]

\* (variant) the service time is left out
LatencyNoService(now, arrive) == (now - arrive) * MS_PER_TICK

\* latency = (now - arrive) * 1000 + 8
Latency(now, arrive) == (now - arrive) * MS_PER_TICK + FIXED_SERVICE_MS

\* (variant) every completion is counted
CountEvery(viol, latency) == viol + 1

\* if latency > 200: self.sla_viol += 1
CountViolation(viol, latency) ==
    IF latency > SLA_THRESHOLD_MS THEN viol + 1 ELSE viol

\* served = min(len(self.queue), self.active_cores)
Served(qlen, cores) == Min(qlen, cores)

RECURSIVE serve(_, _, _)
\* for _ in range(served): the loop body, n times (no time when n <= 0)
serve(s, n, now) ==
    IF n <= 0 THEN s
    ELSE LET p == popleft(s.queue)
             latency == Latency(now, p.item)
         IN  serve([queue |-> p.rest,
                    latencies |-> Append(s.latencies, latency),
                    sla_viol |-> CountViolation(s.sla_viol, latency),
                    completed |-> Append(s.completed,
                                         [arrive |-> p.item, done |-> now])],
                   n - 1, now)

\* (variant) the served cores are not taken off
WastedNoServed(w, cores, served) == w + cores

\* self.wasted_cpu_s += (self.active_cores - served)
Wasted(w, cores, served) == w + (cores - served)

\* (variant) the length is taken before the service loop
QueueArgBefore(before, after) == Len(before)

\* the queue length handed to update: len(self.queue), after the service loop
QueueArg(before, after) == Len(after)

\* self.active_cores = self.ctrl.update(...)
NextCores(ret) == ret

Cluster_step ==
    /\ pc = "run"
    /\ idx < Len(trace)
    /\ LET load == trace[idx + 1]
           now == idx
           q1 == enqueue(queue, load, now)
           served == Served(Len(q1), active_cores)
           s == serve([queue |-> q1, latencies |-> latencies,
                       sla_viol |-> sla_viol, completed |-> completed],
                      served, now)
           qarg == QueueArg(q1, s.queue)
       IN  /\ queue' = s.queue
           /\ latencies' = s.latencies
           /\ sla_viol' = s.sla_viol
           /\ completed' = s.completed
           /\ wasted_cpu_s' = Wasted(wasted_cpu_s, active_cores, served)
           /\ \E o \in update(ctrl, now, active_cores, served, qarg) :
                /\ ctrl' = o.ctrl
                /\ active_cores' = IF o.raised THEN active_cores
                                   ELSE NextCores(o.ret)
                /\ pc' = IF o.raised THEN "raised" ELSE "run"
                /\ idx' = IF o.raised THEN idx ELSE idx + 1
                /\ ticks' = Append(ticks,
                      [idx |-> now, load |-> load, cores |-> active_cores,
                       qlen |-> Len(q1), served |-> served, q |-> qarg,
                       raised |-> o.raised, ret |-> o.ret])
    /\ UNCHANGED <<trace, summary, rows>>

\* lat.mean() if lat.size else 0
LatencyMs(lat) == IF Len(lat) # 0 THEN Div(Sum(lat), Len(lat)) ELSE Div(0, 1)

\* (variant) the operands are exchanged
ThroughputSwapped(lat, tr) == Div(Len(tr), Len(lat))

\* len(lat) / len(self.trace)
Throughput(lat, tr) == Div(Len(lat), Len(tr))

\* self.sla_viol / len(lat) * 100 if lat.size else 0
SlaViolation(viol, lat) ==
    IF Len(lat) # 0 THEN Div(viol * PERCENT, Len(lat)) ELSE Div(0, 1)

\* self.wasted_cpu_s / 3600
WastedCpuH(w) == Div(w, SECONDS_PER_HOUR)

Summary ==
    [latency_ms |-> LatencyMs(latencies),
     throughput |-> Throughput(latencies, trace),
     sla_violation |-> SlaViolation(sla_viol, latencies),
     wasted_cpu_h |-> WastedCpuH(wasted_cpu_s)]

SummaryRaises(s) ==
    s.latency_ms.err \/ s.throughput.err \/ s.sla_violation.err
        \/ s.wasted_cpu_h.err

\* the loop of run is over: return self._summary()
Cluster_summary ==
    /\ pc = "run"
    /\ idx >= Len(trace)
    /\ pc' = IF SummaryRaises(Summary) THEN "raised" ELSE "done"
    /\ summary' = IF SummaryRaises(Summary) THEN {} ELSE {Summary}
    /\ UNCHANGED <<trace, ctrl, active_cores, latencies, wasted_cpu_s,
                   sla_viol, queue, idx, ticks, completed, rows>>

----------------------------------------------------------------------------
(* The runs.                                                               *)

\* arrivals per tick: small counts and a spike
Loads == 0..MaxLoad \cup {SpikeLoad}

Traces == UNION {[1..n -> Loads] : n \in 0..MaxTicks}

\* vms * cpu_per_vm: small clusters and a large one
InitCores == 1..MaxInitCores \cup {LargeCores}

FcHalves == -1..MaxFc2

Slopes == -MaxSlope2..MaxSlope2

Intercepts == {0, MaxFc2}

ShippedControllers ==
    {Reactive(d) : d \in 1..MaxDelay}
      \cup {PredictiveHourly(<<f>>) : f \in FcHalves}
      \cup {PredictiveARIMA}
      \cup {PredictiveML(a, b) : a \in Slopes, b \in Intercepts}
      \cup {Hybrid(<<f>>) : f \in FcHalves}

\* Cluster(trace, controller, vms, cpu_per_vm)
Cluster(tr, controller, cores) ==
    /\ trace = tr
    /\ ctrl = controller
    /\ active_cores = cores
    /\ latencies = <<>>
    /\ wasted_cpu_s = 0
    /\ sla_viol = 0
    /\ queue = <<>>
    /\ idx = 0
    /\ pc = "run"
    /\ summary = {}
    /\ ticks = <<>>
    /\ completed = <<>>
    /\ rows = <<>>

Init ==
    \E tr \in Traces, c \in ShippedControllers, cores \in InitCores :
        Cluster(tr, c, cores)

Next == Cluster_step \/ Cluster_summary

Spec == Init /\ [][Next]_vars

\* a run with a controller object of any behaviour
InitAny == \E tr \in Traces, cores \in InitCores :
               Cluster(tr, AnyController, cores)

SpecAny == InitAny /\ [][Next]_vars

\* a run with Reactive(delay=0)
InitDelay0 == \E tr \in Traces, cores \in InitCores :
                  Cluster(tr, Reactive(0), cores)

SpecDelay0 == InitDelay0 /\ [][Next]_vars

\* the idle scenario: a trace of zeros under the default Reactive
InitIdle ==
    Cluster([i \in 1..IdleTicks |-> 0], Reactive(DEFAULT_DELAY), IdleCores)

SpecIdle == InitIdle /\ [][Next]_vars

----------------------------------------------------------------------------
(* update called directly, once, on a controller in any state it can be    *)
(* in, with any arguments.                                                 *)

\* hourly forecasts of two hours, in halves
CallFc == {<<f, g>> : f, g \in {-1, 0, MaxCallFc2}}

\* a Reactive whose oldest history entry is below low, between, above high
CallControllers ==
    {Hybrid(fc) : fc \in CallFc}
      \cup {[kind |-> "reactive", history |-> <<u>>] :
               u \in {[n |-> 0, d |-> 1], [n |-> 1, d |-> 2], [n |-> 1, d |-> 1]}}

CallTimes == {0, SECONDS_PER_HOUR}

InitCall ==
    \E c \in CallControllers, cores \in 0..MaxCallCores :
        Cluster(<<>>, c, cores)

\* ctrl.update(t, cores, served, q)
update_call ==
    /\ pc = "run"
    /\ Len(ticks) = 0
    /\ \E t \in CallTimes, served \in 0..active_cores, q \in 0..MaxCallQ :
         \E o \in update(ctrl, t, active_cores, served, q) :
            /\ ticks' = <<[t |-> t, cores |-> active_cores, served |-> served,
                           q |-> q, raised |-> o.raised, ret |-> o.ret,
                           ctrl |-> ctrl]>>
            /\ ctrl' = o.ctrl
    /\ pc' = "done"
    /\ UNCHANGED <<trace, active_cores, latencies, wasted_cpu_s, sla_viol,
                   queue, idx, summary, completed, rows>>

NextCall == update_call

SpecCall == InitCall /\ [][NextCall]_vars

----------------------------------------------------------------------------
(* PredictiveARIMA.update called once per tick, t = 0, 1, 2, ..., by a     *)
(* caller whose cores are all busy and whose backlog is empty.  ticks      *)
(* holds the last call that refitted: its t, the forecast it left and what *)
(* it returned.                                                            *)

InitArima == Cluster(<<>>, PredictiveARIMA, 1)

arima_call ==
    /\ pc = "run"
    /\ idx < MaxArimaCalls
    /\ \E o \in update(ctrl, idx, active_cores, active_cores, 0) :
          /\ ctrl' = o.ctrl
          /\ pc' = IF o.raised THEN "raised" ELSE "run"
          /\ ticks' = IF o.ctrl.next_t # ctrl.next_t
                      THEN <<[t |-> idx, pred |-> o.ctrl.pred, ret |-> o.ret]>>
                      ELSE ticks
    /\ idx' = idx + 1
    /\ UNCHANGED <<trace, active_cores, latencies, wasted_cpu_s, sla_viol,
                   queue, summary, completed, rows>>

NextArima == arima_call

SpecArima == InitArima /\ [][NextArima]_vars

----------------------------------------------------------------------------
(* The batch driver (run_simulation.py, main): one controller name run     *)
(* args.runs times over the trace loaded once.                             *)

\* (variant) the controller object of the finished run handed to the next
reuse_controller(c) == c

\* load_controller(name, trace, coeffs): a new object of the same
\* configuration, built by the class's constructor
load_controller(c) ==
    IF c.kind = "reactive" THEN Reactive(Len(c.history))
    ELSE IF c.kind = "predictive_arima" THEN PredictiveARIMA
    ELSE IF c.kind = "predictive_hourly" THEN PredictiveHourly(c.fc)
    ELSE IF c.kind = "predictive_ml" THEN PredictiveML(c.a, c.b)
    ELSE Hybrid(c.fc)

\* rows.append(summ), then the next pass of "for run in range(args.runs)":
\* ctrl = load_controller(...); Cluster(trace, ctrl)
main_next_run ==
    /\ pc = "done"
    /\ Len(rows) + 1 < MaxRuns
    /\ rows' = Append(rows, [summary |-> summary, ticks |-> ticks])
    /\ ctrl' = load_controller(ctrl)
    /\ active_cores' = ticks[1].cores
    /\ latencies' = <<>>
    /\ wasted_cpu_s' = 0
    /\ sla_viol' = 0
    /\ queue' = <<>>
    /\ idx' = 0
    /\ pc' = "run"
    /\ summary' = {}
    /\ ticks' = <<>>
    /\ completed' = <<>>
    /\ UNCHANGED trace

\* the batch over traces of small arrival counts
InitMain ==
    \E tr \in UNION {[1..n -> 0..MaxLoad] : n \in 0..MaxTicks},
       c \in ShippedControllers, cores \in 1..MaxInitCores :
        Cluster(tr, c, cores)

NextMain == Cluster_step \/ Cluster_summary \/ main_next_run

SpecMain == InitMain /\ [][NextMain]_vars

----------------------------------------------------------------------------
(* Reference notions the claims are stated with.                           *)

\* the arrival times of all requests of ticks 0 .. n-1, in arrival order
RECURSIVE Arrivals(_, _)
Arrivals(tr, n) ==
    IF n = 0 THEN <<>> ELSE Arrivals(tr, n - 1) \o [i \in 1..tr[n] |-> n - 1]

ArriveOf(log) == [i \in 1..Len(log) |-> log[i].arrive]

\* the per-tick idle capacity, summed over a log of ticks
RECURSIVE IdleSum(_)
IdleSum(log) ==
    IF Len(log) = 0 THEN 0
    ELSE (Head(log).cores - Min(Head(log).qlen, Head(log).cores))
             + IdleSum(Tail(log))

\* every tick of the trace brings k arrivals
ConstLoad(k) == \A i \in 1..Len(trace) : trace[i] = k

\* every tick was entered with the same core count, and it covers k arrivals
ConstCores(k) ==
    \A i \in 1..Len(ticks) : ticks[i].cores = ticks[1].cores /\ ticks[i].cores >= k

\* the immediate-threshold decision on the utilization served / cores
ImmediateThreshold(cores, served) ==
    IF Gt(Utilization(served, cores), high) THEN (11 * cores) \div 10
    ELSE IF Lt(Utilization(served, cores), low)
         THEN Max(1, (9 * cores) \div 10)
         ELSE cores

\* the threshold decision on a utilization u
ThresholdDecision(u, cores) ==
    IF Gt(u, high) THEN (11 * cores) \div 10
    ELSE IF Lt(u, low) THEN Max(1, (9 * cores) \div 10)
    ELSE cores

\* the utilization of the i-th tick of the run (from 1), 0 before the first
UtilOfTick(i) ==
    IF i < 1 THEN [n |-> 0, d |-> 1]
    ELSE Utilization(ticks[i].served, ticks[i].cores)

\* max(1, ceil(max(fc[t // 3600] + q, r) * 1.1)) over the rationals, with
\* r = 1.1 cores, 0.9 cores or cores by the utilization served / cores
HybridExact(fc, t, cores, served, q) ==
    LET util == Utilization(served, cores)
        r10 == IF Gt(util, high) THEN 11 * cores
               ELSE IF Lt(util, low) THEN 9 * cores
               ELSE 10 * cores
        pred10 == 5 * fc[t \div SECONDS_PER_HOUR + 1] + 10 * q
    IN  Max(1, Ceil(11 * Max(pred10, r10), 100))

----------------------------------------------------------------------------
(* C1.  For any controller object, whatever integer its update returns,    *)
(* active_cores is >= 1 after every Cluster.step: the engine floors the    *)
(* controller's answer at 1.  (Stated as claimed; checked under SpecAny.)  *)
C1_EngineFloorsCores == Len(ticks) > 0 => active_cores >= 1

(* C2.  With each of the five shipped controllers, for every trace of      *)
(* non-negative arrival counts and every initial core count >= 1,          *)
(* active_cores >= 1 holds after every tick of Cluster.run.                *)
C2_ShippedKeepOneCore == active_cores >= 1

\* a zero trace run to its end under Reactive, which scaled down to the floor
C2_Witness ==
    /\ pc = "done"
    /\ ctrl.kind = "reactive"
    /\ Len(ticks) >= 2
    /\ Sum(trace) = 0
    /\ ticks[1].cores > 1
    /\ active_cores = 1

(* C3 (as claimed).  For every completed run the Summary's throughput     *)
(* lies in [0, 1], and a run with a constant arrival count per tick and a  *)
(* constant core count covering it yields throughput = 1.                  *)
C3_ThroughputInUnitInterval ==
    \A s \in summary :
        /\ 0 <= s.throughput.num
        /\ s.throughput.num <= s.throughput.den
        /\ \A k \in 1..MaxLoad :
              ConstLoad(k) /\ ConstCores(k) => s.throughput.num = s.throughput.den

(* C3 (amended).  For every completed run the Summary's throughput is the  *)
(* number of completed requests per tick: it is >= 0 and at most the mean  *)
(* arrival count per tick, not at most 1; a run with k arrivals on every   *)
(* tick and a constant core count >= k yields throughput = k.              *)
C3_ThroughputIsPerTickRate ==
    \A s \in summary :
        /\ s.throughput.den = Len(trace)
        /\ s.throughput.den > 0
        /\ 0 <= s.throughput.num
        /\ s.throughput.num <= Sum(trace)
        /\ \A k \in 0..MaxLoad :
              ConstLoad(k) /\ ConstCores(k)
                  => s.throughput.num = k * s.throughput.den

\* a finished run of two arrivals per tick on a constant two cores
C3_Witness ==
    /\ pc = "done"
    /\ Len(trace) >= 2
    /\ ConstLoad(2)
    /\ ConstCores(2)
    /\ \A s \in summary : s.throughput.num = 2 * s.throughput.den

(* C4.  Cluster.run is total: for every trace, of any length including 0,  *)
(* and every shipped controller it executes step(t) exactly once for each  *)
(* t = 0 .. len(trace)-1 in increasing order, never exits early, and then  *)
(* produces a Summary with its four fields.                                *)
C4_RunIsTotal ==
    /\ pc # "raised"
    /\ \A i \in 1..Len(ticks) : ticks[i].idx = i - 1
    /\ Len(ticks) <= Len(trace)
    /\ pc = "done" =>
          /\ Len(ticks) = Len(trace)
          /\ Cardinality(summary) = 1
          /\ \A s \in summary :
                DOMAIN s = {"latency_ms", "throughput", "sla_violation",
                            "wasted_cpu_h"}

(* C5.  A Reactive controller constructed with delay = 0 is, call by call, *)
(* an immediate-threshold controller: every update returns the threshold   *)
(* decision on the utilization of that same call.  (Checked under          *)
(* SpecDelay0.)                                                            *)
C5_Delay0IsImmediateThreshold ==
    \A i \in 1..Len(ticks) :
        /\ ~ticks[i].raised
        /\ ticks[i].ret = ImmediateThreshold(ticks[i].cores, ticks[i].served)

(* C6.  On every tick served = min(queue length after enqueuing the        *)
(* tick's arrivals, active_cores at entry), so it exceeds neither; and the *)
(* queue length handed to update is the backlog left after service         *)
(* (length after enqueue minus served), not the length before service.     *)
C6_ServedAndBacklog ==
    /\ \A i \in 1..Len(ticks) :
          /\ ticks[i].served = Min(ticks[i].qlen, ticks[i].cores)
          /\ ticks[i].served <= ticks[i].qlen
          /\ ticks[i].served <= ticks[i].cores
          /\ ticks[i].q = ticks[i].qlen - ticks[i].served
    /\ Len(ticks) > 0 => ticks[Len(ticks)].q = Len(queue)

\* a tick that served some requests and left others queued
C6_Witness ==
    \E i \in 1..Len(ticks) : ticks[i].served > 0 /\ ticks[i].q > 0

(* C7.  The queue is FIFO: its arrival times are non-decreasing from head  *)
(* to tail and none exceeds the current tick; every dequeue removes the    *)
(* oldest entry, so the completed requests followed by the queued ones are *)
(* the arrivals in arrival order and no request completes before one that  *)
(* arrived on an earlier tick; the queue length is never negative.         *)
C7_QueueIsFifo ==
    /\ \A i, j \in 1..Len(queue) : i < j => queue[i] <= queue[j]
    /\ \A i \in 1..Len(queue) : queue[i] >= 0 /\ queue[i] < Len(ticks)
    /\ ArriveOf(completed) \o queue = Arrivals(trace, Len(ticks))
    /\ \A i, j \in 1..Len(completed) :
          completed[i].arrive < completed[j].arrive
              => completed[i].done <= completed[j].done
    /\ \A i \in 1..Len(completed), j \in 1..Len(queue) :
          completed[i].arrive <= queue[j]
    /\ Len(queue) >= 0

\* a backlog holding requests of two ticks, after an older one was served late
C7_Witness ==
    /\ Len(queue) >= 2
    /\ queue[1] < queue[Len(queue)]
    /\ \E i \in 1..Len(completed) : completed[i].done > completed[i].arrive

(* C8.  Every recorded latency equals (completion tick - arrival tick) *   *)
(* 1000 + 8 for the request it belongs to (the i-th latency belongs to the *)
(* i-th arrival), is >= 8, and is non-decreasing in the ticks waited.      *)
C8_LatencyFormula ==
    /\ Len(completed) = Len(latencies)
    /\ \A i \in 1..Len(latencies) :
          LET arrived == Arrivals(trace, Len(ticks))[i] IN
          /\ latencies[i] = (completed[i].done - arrived) * 1000 + 8
          /\ latencies[i] >= 8
          /\ completed[i].done >= arrived
    /\ \A i, j \in 1..Len(latencies) :
          completed[i].done - completed[i].arrive
                  <= completed[j].done - completed[j].arrive
              => latencies[i] <= latencies[j]

\* a request served in its own tick and one served a tick late
C8_Witness ==
    /\ \E i \in 1..Len(latencies) : latencies[i] = 8
    /\ \E i \in 1..Len(latencies) : latencies[i] = 1008

(* C9.  After every tick wasted_cpu_s equals the sum over the ticks run so *)
(* far of (active_cores at entry - served), accumulated per tick from the  *)
(* logged capacity and queue length; every term is >= 0, so it is >= 0 and *)
(* never decreases; the Summary's wasted_cpu_h is that sum over 3600.      *)
C9_WastedIsIdleSum ==
    /\ wasted_cpu_s = IdleSum(ticks)
    /\ wasted_cpu_s >= 0
    /\ \A i \in 1..Len(ticks) : IdleSum(SubSeq(ticks, 1, i - 1))
                                    <= IdleSum(SubSeq(ticks, 1, i))
    /\ \A s \in summary :
          /\ ~s.wasted_cpu_h.err
          /\ s.wasted_cpu_h.num = IdleSum(ticks)
          /\ s.wasted_cpu_h.den = 3600

\* a finished run with a fully used tick and a tick with idle cores
C9_Witness ==
    /\ pc = "done"
    /\ wasted_cpu_s > 0
    /\ \E i \in 1..Len(ticks) : ticks[i].served = ticks[i].cores
    /\ \E i \in 1..Len(ticks) : ticks[i].served > 0 /\ ticks[i].served < ticks[i].cores

(* C10.  The violation counter counts exactly the completed requests whose *)
(* latency exceeds 200 ms, so sla_viol <= completed; the Summary's         *)
(* sla_violation is sla_viol / completed * 100, in [0, 100], and it is 0,  *)
(* with latency_ms 0 and no division by zero in either, when no request    *)
(* completed.                                                              *)
C10_ViolationRate ==
    /\ sla_viol = Cardinality({i \in 1..Len(latencies) : latencies[i] > 200})
    /\ sla_viol <= Len(latencies)
    /\ ~SlaViolation(sla_viol, latencies).err
    /\ ~LatencyMs(latencies).err
    /\ \A s \in summary :
          IF Len(latencies) = 0
          THEN /\ s.sla_violation.num = 0
               /\ s.latency_ms.num = 0
          ELSE /\ s.sla_violation.num = sla_viol * 100
               /\ s.sla_violation.den = Len(latencies)
               /\ 0 <= s.sla_violation.num
               /\ s.sla_violation.num <= 100 * s.sla_violation.den

\* a finished run in which some completions violated the SLA and some did not
C10_Witness ==
    /\ pc = "done"
    /\ sla_viol > 0
    /\ sla_viol < Len(latencies)

(* C11.  Two runs over the same trace, each with its own new Cluster and   *)
(* its own new controller of the same configuration, pass through the same *)
(* sequence of (active_cores, served, queue length) and give the same      *)
(* Summary: the run in progress repeats, tick for tick, every finished run *)
(* of the batch.                                                           *)
C11_RunsAgree ==
    \A r \in 1..Len(rows) :
        /\ Len(ticks) <= Len(rows[r].ticks)
        /\ \A i \in 1..Len(ticks) : ticks[i] = rows[r].ticks[i]
        /\ pc = "done" => /\ summary = rows[r].summary
                          /\ Len(ticks) = Len(rows[r].ticks)

\* a second run finished after a first one that left utilizations above the
\* high threshold in its Reactive controller's history
C11_Witness ==
    /\ Len(rows) >= 1
    /\ pc = "done"
    /\ ctrl.kind = "reactive"
    /\ Len(ticks) >= 2
    /\ Gt(Head(ctrl.history), high)
    /\ ticks[1].ret < ticks[1].cores

(* C12.  On a trace of zeros under the default Reactive the queue stays    *)
(* empty and the utilization is 0 on every tick; active_cores never        *)
(* increases, drops on every tick until it reaches 1 and then stays 1; the *)
(* Summary has latency_ms = 0, throughput = 0 and sla_violation = 0.       *)
C12_IdleScenario ==
    /\ queue = <<>>
    /\ \A i \in 1..Len(ticks) :
          /\ ticks[i].qlen = 0 /\ ticks[i].served = 0 /\ ticks[i].q = 0
          /\ ~ticks[i].raised
          /\ ticks[i].ret <= ticks[i].cores
          /\ ticks[i].cores > 1 => ticks[i].ret < ticks[i].cores
          /\ ticks[i].cores = 1 => ticks[i].ret = 1
    /\ \A i \in 1..Len(ctrl.history) : ctrl.history[i].n = 0
    /\ pc # "raised"
    /\ pc = "done" =>
          \A m \in summary :
              /\ ~m.latency_ms.err /\ m.latency_ms.num = 0
              /\ ~m.throughput.err /\ m.throughput.num = 0
              /\ ~m.sla_violation.err /\ m.sla_violation.num = 0

\* the whole scenario run, ended on one core
C12_Witness ==
    /\ pc = "done"
    /\ summary # {}
    /\ Len(ticks) = IdleTicks
    /\ ticks[1].cores = IdleCores
    /\ active_cores = 1
    /\ \E i \in 1..Len(ticks) : ticks[i].cores = 2 /\ ticks[i].ret = 1

(* C13.  Reactive with delay >= 1 is a delay line of fixed length: its     *)
(* history holds the utilizations of the last delay calls (0 where there   *)
(* was no call), so exactly delay entries after every update, and the n-th *)
(* call is decided by the utilization computed in call n - delay, or by 0  *)
(* when n < delay, never by the utilization of the call itself.            *)
C13_DelayLine ==
    ctrl.kind = "reactive" =>
        LET delay == Len(ctrl.history)
            n == Len(ticks)
        IN  /\ delay >= 1
            /\ \A j \in 1..delay :
                  ctrl.history[j] = UtilOfTick(n - delay + j)
            /\ \A i \in 1..n :
                  /\ ~ticks[i].raised
                  /\ ticks[i].ret =
                        ThresholdDecision(UtilOfTick(i - delay), ticks[i].cores)

\* a call with utilization below low, decided by the utilization above high
\* of the call delay ticks earlier, so that the cores are not lowered
C13_Witness ==
    /\ ctrl.kind = "reactive"
    /\ Len(ctrl.history) = 2
    /\ \E i \in 3..Len(ticks) :
          /\ Gt(UtilOfTick(i - 2), high)
          /\ Lt(UtilOfTick(i), low)
          /\ Lt(UtilOfTick(i - 1), low)
          /\ ticks[i].cores > 1
          /\ ticks[i].ret = ticks[i].cores

(* C14.  Hybrid.update(t, cores, served, q) returns                        *)
(* max(1, ceil(max(fc[t // 3600] + q, r) * (1 + buffer))) with r the       *)
(* threshold candidate of the same call's utilization, and leaves the      *)
(* controller as it was.  (Stated as claimed; checked under SpecCall.)     *)
C14_HybridFormula ==
    \A i \in 1..Len(ticks) :
        ticks[i].ctrl.kind = "hybrid" =>
            /\ ~ticks[i].raised
            /\ ctrl = ticks[i].ctrl
            /\ ticks[i].ret = HybridExact(ticks[i].ctrl.fc, ticks[i].t,
                                          ticks[i].cores, ticks[i].served,
                                          ticks[i].q)

(* C19.  With the defaults, for every cores >= 1 a Reactive update whose   *)
(* delayed utilization exceeds high returns a core count strictly greater  *)
(* than cores.  (Stated as claimed; checked under SpecCall.)               *)
C19_ScaleUpStrict ==
    \A i \in 1..Len(ticks) :
        (/\ ticks[i].ctrl.kind = "reactive"
         /\ Gt(Head(ticks[i].ctrl.history), high)
         /\ ticks[i].cores >= 1)
            => ticks[i].ret > ticks[i].cores

(* C20.  With the defaults, for every cores >= 1, every served, every      *)
(* q >= 0 and every forecast value, Hybrid.update returns at least         *)
(* ceil(0.99 * cores): one call lowers the core count by at most 1%, and   *)
(* not at all while cores < 100.                                           *)
C20_HybridScaleDownBound ==
    \A i \in 1..Len(ticks) :
        (ticks[i].ctrl.kind = "hybrid" /\ ticks[i].cores >= 1)
            => /\ ~ticks[i].raised
               /\ ticks[i].ret >= Ceil(99 * ticks[i].cores, 100)
               /\ 100 * (ticks[i].cores - ticks[i].ret) <= ticks[i].cores
               /\ ticks[i].cores < 100 => ticks[i].ret >= ticks[i].cores

\* an idle call with a forecast below the cores, on more than 100 cores,
\* that lowers the core count by one
C20_Witness ==
    /\ Len(ticks) = 1
    /\ ticks[1].ctrl.kind = "hybrid"
    /\ ticks[1].cores > 100
    /\ ticks[1].served = 0
    /\ ticks[1].ret = ticks[1].cores - 1

(* C15.  With update called once per tick t = 0, 1, 2, ..., the buffer     *)
(* never holds more than 1800 samples; the forecast stays 1.0 until the    *)
(* first call at which the buffer holds 300 samples (t = 299); after a     *)
(* refit at t the forecast is unchanged on t+1 .. t+59 and the next refit  *)
(* is at t+60; whatever the refit leaves (the fit's forecast or, when the  *)
(* fit fails, the mean of the buffer), update returns a core count and     *)
(* does not raise.                                                         *)
C15_RefitSchedule ==
    ctrl.kind = "predictive_arima" =>
        /\ pc # "raised"
        /\ Len(ctrl.buf) = Min(idx, WIN)
        /\ idx < MIN_FIT =>
              ticks = <<>> /\ ctrl.pred = [n |-> 1, d |-> 1] /\ ctrl.next_t = 0
        /\ idx >= MIN_FIT =>
              LET last == MIN_FIT - 1 + STEP * ((idx - MIN_FIT) \div STEP) IN
              /\ Len(ticks) = 1
              /\ ticks[1].t = last
              /\ ticks[1].pred = ctrl.pred
              /\ ticks[1].ret >= 1
              /\ ctrl.next_t = last + STEP

\* past the buffer's capacity, between two refits, the last of which fell
\* back to the mean of a full buffer
C15_Witness ==
    /\ ctrl.kind = "predictive_arima"
    /\ idx > WIN + STEP
    /\ Len(ctrl.buf) = WIN
    /\ ctrl.next_t > idx + 1
    /\ Len(ticks) = 1 /\ ticks[1].t < idx - 1
    /\ ctrl.pred = [n |-> Sum(ctrl.buf), d |-> WIN]

(* C16.  Driven by Cluster.run, the load sample PredictiveARIMA buffers on *)
(* a tick, served + max(0, q - prev_q), is the larger of the tick's        *)
(* arrivals and the tick's served count: the arrivals exactly on every     *)
(* tick whose backlog did not shrink, and never less than the arrivals.    *)
C16_LoadSample ==
    ctrl.kind = "predictive_arima" =>
        /\ Len(ctrl.buf) = Len(ticks)
        /\ \A i \in 1..Len(ticks) :
              /\ ctrl.buf[i] = Max(ticks[i].load, ticks[i].served)
              /\ ctrl.buf[i] >= ticks[i].load
              /\ ticks[i].q >= (IF i = 1 THEN 0 ELSE ticks[i - 1].q)
                    => ctrl.buf[i] = ticks[i].load

\* a tick that grew the backlog followed by one that shrank it, whose sample
\* is above its arrivals
C16_Witness ==
    /\ ctrl.kind = "predictive_arima"
    /\ \E i \in 2..Len(ticks) :
          /\ ticks[i - 1].q > 0
          /\ ctrl.buf[i - 1] = ticks[i - 1].load
          /\ ticks[i].q < ticks[i - 1].q
          /\ ticks[i].load > 0
          /\ ctrl.buf[i] > ticks[i].load

(* C17.  Under PredictiveHourly with every forecast entry >= 0, and under  *)
(* PredictiveML with any coefficients, the returned cores cover the        *)
(* backlog q, so every request queued after tick t is served on tick t+1:  *)
(* every completed request has latency 8 or 1008 ms, and the backlog after *)
(* a tick holds only requests that arrived on that tick.                   *)
C17_BacklogCleared ==
    (\/ ctrl.kind = "predictive_ml"
     \/ /\ ctrl.kind = "predictive_hourly"
        /\ \A h \in 1..Len(ctrl.fc) : ctrl.fc[h] >= 0)
        => /\ \A i \in 1..Len(ticks) :
                 ~ticks[i].raised /\ ticks[i].ret >= ticks[i].q
           /\ \A i \in 2..Len(ticks) : ticks[i].served >= ticks[i - 1].q
           /\ \A k \in 1..Len(completed) :
                 /\ completed[k].done - completed[k].arrive \in {0, 1}
                 /\ latencies[k] \in {FIXED_SERVICE_MS,
                                      MS_PER_TICK + FIXED_SERVICE_MS}
           /\ \A j \in 1..Len(queue) : queue[j] = idx - 1

\* a backlog left by one tick and served whole on the next, which left a
\* backlog of its own
C17_Witness ==
    /\ ctrl.kind = "predictive_hourly"
    /\ ctrl.fc[1] >= 0
    /\ Len(ticks) >= 2
    /\ ticks[Len(ticks) - 1].q > 0
    /\ \E k \in 1..Len(latencies) :
          latencies[k] = MS_PER_TICK + FIXED_SERVICE_MS
    /\ Len(queue) > 0

(* C18.  After every tick t the recorded latencies and the queue together  *)
(* number the arrivals of ticks 0 .. t, and each tick's arrivals are found *)
(* once each, either completed or still queued: no request is lost,        *)
(* duplicated or served twice.                                             *)
C18_RequestConservation ==
    /\ Len(latencies) + Len(queue) = Sum(SubSeq(trace, 1, Len(ticks)))
    /\ Len(completed) = Len(latencies)
    /\ \A i \in 1..Len(completed) : completed[i].arrive \in 0..(Len(ticks) - 1)
    /\ \A j \in 1..Len(queue) : queue[j] \in 0..(Len(ticks) - 1)
    /\ \A k \in 1..Len(ticks) :
          Cardinality({i \in 1..Len(completed) : completed[i].arrive = k - 1})
            + Cardinality({j \in 1..Len(queue) : queue[j] = k - 1})
              = trace[k]

\* arrivals of one tick partly completed and partly still queued, after a
\* tick whose arrivals are all completed
C18_Witness ==
    /\ Len(ticks) >= 2
    /\ trace[1] >= 2
    /\ Cardinality({i \in 1..Len(completed) : completed[i].arrive = 0}) = trace[1]
    /\ \E i \in 1..Len(completed) : completed[i].arrive = Len(ticks) - 1
    /\ Len(queue) > 0

====
